---- MODULE Spec2Model ----
(***************************************************************************)
(* Model of src/architecture/architecture.py: the event / aggregate replay *)
(* core (Event.mutate, Aggregate.empty / replay / apply_event / __bool__,  *)
(* EventsRegistry.register) together with the collaborators the file only  *)
(* declares as Protocols (EventsStore, UnitOfWork).                        *)
(*                                                                         *)
(* Python objects are modelled by value, except where identity matters:    *)
(*   - a datetime carries its value t and whether it IS the object         *)
(*     datetime.min (Aggregate.__bool__ compares with `is not`);           *)
(*   - the list held by Aggregate.events lives in a heap (lists), the      *)
(*     aggregate holds a reference to it, and append mutates it in place.  *)
(* An exception is modelled by the exc field of an operator's result.      *)
(***************************************************************************)
EXTENDS Integers, Sequences, FiniteSets, TLC

\* Bound of the model: events in the store plus events staged in memory.
MaxLen == 2

None == "None"
\* The value of a variable that holds no aggregate.
NoAggregate == [none |-> TRUE]
NoExc == "none"

(***************************************************************************)
(* Values                                                                  *)
(***************************************************************************)

\* datetime.min, the one object `created_at`/`updated_at` default to.
DatetimeMin == [t |-> 0, obj |-> "datetime.min"]

\* The datetimes an event may carry: datetime.min itself, a datetime equal to
\* datetime.min but another object (e.g. parsed from a string), a later one.
Datetimes == {DatetimeMin, [t |-> 0, obj |-> "other"], [t |-> 1, obj |-> "other"]}

\* Concrete Event subclasses (implementations of the abstract Event.apply).
\* "Opened2" is a second, distinct class whose __name__ is also "Opened".
EventTypes == {"Opened", "Deposited", "Withdrawn", "Noted"}
AllEventTypes == EventTypes \cup {"Opened2"}

\* type.__name__
TypeName(cls) == IF cls = "Opened2" THEN "Opened" ELSE cls

TypeNames == {TypeName(c) : c \in AllEventTypes}

AggregateIds == {"", "a1"}

\* Event instances: the four envelope fields, the class, and the payload
\* fields the subclasses declare (amount: int, value_date: datetime).
Events ==
    [type : EventTypes, event_id : {"e1"}, aggregate_id : AggregateIds,
     timestamp : Datetimes, by : {""}, amount : {1},
     value_date : {[t |-> 1, obj |-> "other"]}]

\* The declared type of each model field of an event.
FieldType ==
    [event_id |-> "str", aggregate_id |-> "str", timestamp |-> "datetime",
     by |-> "str", amount |-> "int", value_date |-> "datetime"]

\* The model fields of an event (type is its class, not a field).
ModelFields(event) == DOMAIN event \ {"type"}

\* Units of work (callers holding an aggregate), and the one the
\* single-caller specification runs.
UoWs == {"u1", "u2"}
OneUoW == {"u1"}

\* The events the two-caller specification draws from: the account events,
\* built with the aggregate's id and a timestamp of their own.
ConcurrentEvents ==
    {e \in Events : /\ e.type \in {"Opened", "Deposited", "Withdrawn"}
                    /\ e.aggregate_id = "a1"
                    /\ e.timestamp.obj = "other"}

ListIds == 1 .. (Cardinality(UoWs) + 1)

VARIABLES
    registry,   \* EventsRegistry: a dict, type name -> event class
    store,      \* EventsStore: the append-only history of the aggregate
    agg,        \* per unit of work: the Aggregate it holds, or None
    lists,      \* heap of list objects: list id -> content (Aggregate.events)
    outcome,    \* result of the last call: operation, exception, return value
    ghost       \* per unit of work: what was replayed, which apply_event calls
                \* returned, whether one raised, the state replay returned

vars == <<registry, store, agg, lists, outcome, ghost>>

(***************************************************************************)
(* Event                                                                   *)
(***************************************************************************)

\* Event.apply is abstract; these are the concrete subclasses the model
\* draws its events from.  Each returns the aggregate as apply left it and
\* the exception it raised, if any.
\*   Opened.apply:    aggregate.id = self.aggregate_id
\*                    aggregate.created_at = self.timestamp
\*                    aggregate.balance = self.amount
\*   Deposited.apply: aggregate.balance += self.amount
\*   Withdrawn.apply: if aggregate.balance < self.amount: raise ...
\*                    aggregate.balance -= self.amount
\*   Noted.apply:     pass
apply(self, aggregate) ==
    CASE self.type = "Opened" ->
            [obj |-> [aggregate EXCEPT !.id = self.aggregate_id,
                                       !.created_at = self.timestamp,
                                       !.balance = self.amount],
             exc |-> NoExc]
      [] self.type = "Deposited" ->
            [obj |-> [aggregate EXCEPT !.balance = @ + self.amount],
             exc |-> NoExc]
      [] self.type = "Withdrawn" ->
            IF aggregate.balance < self.amount
            THEN [obj |-> aggregate, exc |-> "DomainInvariantViolation"]
            ELSE [obj |-> [aggregate EXCEPT !.balance = @ - self.amount],
                  exc |-> NoExc]
      [] OTHER -> [obj |-> aggregate, exc |-> NoExc]

\* Bug: the timestamp is assigned to created_at.
mutate_created_at(self, aggregate) ==
    apply(self, [aggregate EXCEPT !.created_at = self.timestamp])

\* Bug: apply runs first and updated_at is assigned after it, so that a
\* raising apply leaves updated_at alone.
mutate_apply_first(self, aggregate) ==
    LET r == apply(self, aggregate)
    IN  IF r.exc = NoExc
        THEN [obj |-> [r.obj EXCEPT !.updated_at = self.timestamp],
              exc |-> NoExc]
        ELSE r

\* Bug: updated_at is taken from the clock (a later instant at every call)
\* in place of the event's timestamp.
mutate_clock(self, aggregate) ==
    apply(self, [aggregate EXCEPT
                    !.updated_at = [t |-> @.t + 1, obj |-> "other"]])

\* Event.mutate: updated_at is assigned first, then apply runs on the
\* aggregate so changed; whatever apply raises propagates.
mutate(self, aggregate) ==
    apply(self, [aggregate EXCEPT !.updated_at = self.timestamp])

\* datetime.isoformat(), the form a datetime takes in JSON.
Iso(d) == IF d.t = 0 THEN "0001-01-01T00:00:00" ELSE "0001-01-01T00:00:01"

\* The JSON value model_dump_json writes for a field value of a given type.
ToJson(type, v) ==
    CASE type = "int" -> [kind |-> "number", num |-> v]
      [] type = "datetime" -> [kind |-> "string", text |-> Iso(v)]
      [] OTHER -> [kind |-> "string", text |-> v]

\* The Python value json.loads builds from a JSON value, with its type.
FromJson(j) ==
    IF j.kind = "number"
    THEN [type |-> "int", v |-> j.num]
    ELSE [type |-> "str", v |-> j.text]

\* BaseModel.model_dump_json(exclude=...): the JSON object of the model
\* fields that are not excluded.
model_dump_json(self, exclude) ==
    [f \in ModelFields(self) \ exclude |-> ToJson(FieldType[f], self[f])]

\* json.loads of a JSON object: a dict of the decoded values.
json_loads(doc) == [f \in DOMAIN doc |-> FromJson(doc[f])]

\* Bug: "by" is missing from the exclude set.
as_json_keeping_by(self) ==
    json_loads(model_dump_json(self, {"event_id", "aggregate_id",
                                      "timestamp"}))

\* Event.as_json: json.loads(self.model_dump_json(exclude={...})).
as_json(self) ==
    json_loads(model_dump_json(self, {"event_id", "aggregate_id",
                                      "timestamp", "by"}))

(***************************************************************************)
(* EventsRegistry                                                          *)
(***************************************************************************)

EmptyRegistry == [n \in {} |-> None]

\* Bug: self.setdefault(event_type.__name__, event_type), which keeps an
\* earlier registration.
register_setdefault(self, event_type) ==
    [self |-> [n \in DOMAIN self \cup {TypeName(event_type)} |->
                  IF n \in DOMAIN self THEN self[n] ELSE event_type],
     ret  |-> event_type,
     exc  |-> NoExc,
     diag |-> {}]

\* EventsRegistry.register: self[event_type.__name__] = event_type, then
\* return event_type.  Nothing is raised and nothing is written to any log.
register(self, event_type) ==
    [self |-> [n \in DOMAIN self \cup {TypeName(event_type)} |->
                  IF n = TypeName(event_type) THEN event_type ELSE self[n]],
     ret  |-> event_type,
     exc  |-> NoExc,
     diag |-> {}]

\* Bug: self.get(name), which answers None for an absent key.
lookup_get(self, name) ==
    [self |-> self,
     ret  |-> IF name \in DOMAIN self THEN self[name] ELSE None,
     exc  |-> NoExc,
     diag |-> {}]

\* registry[name]: dict.__getitem__ of the dict subclass, which defines no
\* __missing__: an absent key raises KeyError.
lookup(self, name) ==
    IF name \in DOMAIN self
    THEN [self |-> self, ret |-> self[name], exc |-> NoExc, diag |-> {}]
    ELSE [self |-> self, ret |-> None, exc |-> "KeyError", diag |-> {}]

(***************************************************************************)
(* Aggregate                                                               *)
(***************************************************************************)

\* The address of a new list object: one no live list has.
NewListId(heap) ==
    CHOOSE l \in ListIds \ DOMAIN heap :
        \A k \in ListIds \ DOMAIN heap : l <= k

\* Bug: one list object shared by every instance (a mutable default that is
\* not copied per instance).
empty_shared_list(heap) ==
    [obj  |-> [id |-> "", created_at |-> DatetimeMin,
               updated_at |-> DatetimeMin, balance |-> 0, events |-> 1],
     heap |-> [k \in DOMAIN heap \cup {1} |->
                  IF k \in DOMAIN heap THEN heap[k] ELSE << >>]]

\* Aggregate.empty: cls().  The fields take their defaults; events takes a
\* list of its own from default_factory=list.
empty(heap) ==
    LET l == NewListId(heap)
    IN  [obj  |-> [id |-> "", created_at |-> DatetimeMin,
                   updated_at |-> DatetimeMin, balance |-> 0, events |-> l],
         heap |-> [k \in DOMAIN heap \cup {l} |->
                      IF k = l THEN << >> ELSE heap[k]]]

\* Bug: the test reads updated_at.
bool_updated_at(self) == self.updated_at.obj # DatetimeMin.obj

\* Aggregate.__bool__: created_at is not datetime.min (identity).
bool(self) == self.created_at.obj # DatetimeMin.obj

\* The for loop of Aggregate.replay: mutate each event in turn; the first
\* exception ends the loop.  n counts the events whose mutate returned.
RECURSIVE replay_loop(_, _, _)
replay_loop(obj, events, n) ==
    IF n = Len(events)
    THEN [obj |-> obj, exc |-> NoExc, n |-> n]
    ELSE LET m == mutate(events[n + 1], obj)
         IN  IF m.exc # NoExc
             THEN [obj |-> m.obj, exc |-> m.exc, n |-> n]
             ELSE replay_loop(m.obj, events, n + 1)

\* Bug: the loop calls obj.apply_event(event), which records every event.
replay_recording(events, heap) ==
    LET e == empty(heap)
        r == replay_loop(e.obj, events, 0)
    IN  [obj  |-> r.obj,
         heap |-> [e.heap EXCEPT ![e.obj.events] = SubSeq(events, 1, r.n)],
         exc  |-> r.exc, n |-> r.n]

\* Bug (of the claimed behaviour): every event's type name is looked up in
\* the registry before the loop starts.
replay_checking_registry(events, heap) ==
    LET e == empty(heap)
        r == replay_loop(e.obj, events, 0)
    IN  IF \E i \in DOMAIN events :
              TypeName(events[i].type) \notin DOMAIN registry
        THEN [obj |-> e.obj, heap |-> e.heap, exc |-> "KeyError", n |-> 0]
        ELSE [obj |-> r.obj, heap |-> e.heap, exc |-> r.exc, n |-> r.n]

\* Bug: the loop is wrapped in try/except and the aggregate built so far is
\* returned when an apply raises.
replay_returning_partial(events, heap) ==
    LET e == empty(heap)
        r == replay_loop(e.obj, events, 0)
    IN  [obj |-> r.obj, heap |-> e.heap, exc |-> NoExc, n |-> r.n]

\* Bug: the loop runs over sorted(events, key=timestamp) (a stable sort;
\* the timestamps of the model are the instants 0 and 1).
replay_sorted(events, heap) ==
    LET e == empty(heap)
        early(event) == event.timestamp.t = 0
        late(event) == event.timestamp.t # 0
        r == replay_loop(e.obj, SelectSeq(events, early)
                                   \o SelectSeq(events, late), 0)
    IN  [obj |-> r.obj, heap |-> e.heap, exc |-> r.exc, n |-> r.n]

\* Aggregate.replay: obj = cls.empty(); mutate every event; return obj.
\* The registry is not consulted.  When exc is set nothing is returned and
\* obj is what the local variable held when the exception left the frame.
replay(events, heap) ==
    LET e == empty(heap)
        r == replay_loop(e.obj, events, 0)
    IN  [obj |-> r.obj, heap |-> e.heap, exc |-> r.exc, n |-> r.n]

\* Bug: event.apply(self) in place of event.mutate(self).
apply_event_without_mutate(self, event, heap) ==
    LET m == apply(event, self)
    IN  IF m.exc # NoExc
        THEN [obj |-> m.obj, heap |-> heap, exc |-> m.exc]
        ELSE [obj  |-> m.obj,
              heap |-> [heap EXCEPT ![self.events] = Append(@, event)],
              exc  |-> NoExc]

\* Bug: the event is appended before it is applied.
apply_event_append_first(self, event, heap) ==
    LET m == mutate(event, self)
    IN  [obj  |-> m.obj,
         heap |-> [heap EXCEPT ![self.events] = Append(@, event)],
         exc  |-> m.exc]

\* Aggregate.apply_event: event.mutate(self), then self.events.append(event).
\* An exception from mutate skips the append; what mutate had already
\* written to self stays written.
apply_event(self, event, heap) ==
    LET m == mutate(event, self)
    IN  IF m.exc # NoExc
        THEN [obj |-> m.obj, heap |-> heap, exc |-> m.exc]
        ELSE [obj  |-> m.obj,
              heap |-> [heap EXCEPT ![self.events] = Append(@, event)],
              exc  |-> NoExc]

(***************************************************************************)
(* EventsStore and UnitOfWork (Protocols: the file declares them only)     *)
(***************************************************************************)

\* EventsStore.for_aggregate: the events in the order they were appended.
for_aggregate(events_store) == events_store

\* EventsStore.get_aggregate: Aggregate.replay(self.for_aggregate(id)).
get_aggregate(events_store, heap) == replay(for_aggregate(events_store), heap)

\* EventsStore.update: append the aggregate's staged events.
update(events_store, aggregate, heap) == events_store \o heap[aggregate.events]

(***************************************************************************)
(* State                                                                   *)
(***************************************************************************)

\* What a caller can read off an aggregate: its fields and its events.
State(obj, heap) ==
    [id |-> obj.id, created_at |-> obj.created_at,
     updated_at |-> obj.updated_at, balance |-> obj.balance,
     events |-> heap[obj.events]]

\* The same without the events bookkeeping list.
Fields(obj) ==
    [id |-> obj.id, created_at |-> obj.created_at,
     updated_at |-> obj.updated_at, balance |-> obj.balance]

NoGhost == [loaded |-> << >>, calls |-> << >>, failed |-> FALSE, born |-> NoAggregate]

NoOutcome == [op |-> "none", who |-> "", exc |-> NoExc, ret |-> None, diag |-> {}]

Live == {u \in UoWs : agg[u] # NoAggregate}

\* Reference counting: a list no aggregate refers to is freed.
Collect(heap, aggs) ==
    [l \in {aggs[u].events : u \in {v \in UoWs : aggs[v] # NoAggregate}}
           \cap DOMAIN heap |-> heap[l]]

RECURSIVE SumLen(_)
SumLen(S) ==
    IF S = {} THEN 0
    ELSE LET l == CHOOSE x \in S : TRUE
         IN  Len(lists[l]) + SumLen(S \ {l})

\* Events in the store plus events staged in memory.
TotalLen == Len(store) + SumLen(DOMAIN lists)

HistoriesOf(pool) == UNION {[1 .. n -> pool] : n \in 0 .. MaxLen}

\* The registry as the program's imports leave it: three of the four event
\* classes carry the @register decorator, Noted does not.
ImportedRegistry ==
    register(register(register(EmptyRegistry, "Opened").self,
                      "Deposited").self, "Withdrawn").self

(***************************************************************************)
(* Actions                                                                 *)
(***************************************************************************)

\* A unit of work builds a new aggregate: agg = Aggregate.empty().
Empty(u) ==
    LET r == empty(lists)
    IN  /\ agg' = [agg EXCEPT ![u] = r.obj]
        /\ lists' = Collect(r.heap, agg')
        /\ ghost' = [ghost EXCEPT ![u] =
                        [NoGhost EXCEPT !.born = State(r.obj, r.heap)]]
        /\ outcome' = [NoOutcome EXCEPT !.op = "empty", !.who = u]
        /\ UNCHANGED <<registry, store>>

\* A unit of work loads the aggregate: agg = store.get_aggregate(id).
\* When replay raises, the assignment does not happen.
Load(u) ==
    LET r == get_aggregate(store, lists)
    IN  /\ agg' = IF r.exc = NoExc THEN [agg EXCEPT ![u] = r.obj] ELSE agg
        /\ lists' = Collect(r.heap, agg')
        /\ ghost' = IF r.exc = NoExc
                    THEN [ghost EXCEPT ![u] =
                            [NoGhost EXCEPT !.loaded = store,
                                            !.born = State(r.obj, r.heap)]]
                    ELSE ghost
        /\ outcome' = [NoOutcome EXCEPT !.op = "replay", !.who = u,
                                        !.exc = r.exc]
        /\ UNCHANGED <<registry, store>>

\* agg.apply_event(event) on the aggregate a unit of work holds.
ApplyEvent(u, event) ==
    /\ agg[u] # NoAggregate
    /\ TotalLen < MaxLen
    /\ LET r == apply_event(agg[u], event, lists)
       IN  /\ agg' = [agg EXCEPT ![u] = r.obj]
           /\ lists' = r.heap
           /\ ghost' = [ghost EXCEPT
                          ![u].calls = IF r.exc = NoExc
                                       THEN Append(@, event) ELSE @,
                          ![u].failed = @ \/ r.exc # NoExc]
           /\ outcome' = [NoOutcome EXCEPT !.op = "apply_event", !.who = u,
                                           !.exc = r.exc]
    /\ UNCHANGED <<registry, store>>

\* event.as_json() on an event the aggregate has staged (its payload, as
\* the store writes it).
AsJson(u, i) ==
    /\ agg[u] # NoAggregate
    /\ i \in DOMAIN lists[agg[u].events]
    /\ outcome' = [NoOutcome EXCEPT !.op = "as_json", !.who = u,
                       !.ret = as_json(lists[agg[u].events][i])]
    /\ UNCHANGED <<registry, store, agg, lists, ghost>>

\* UnitOfWork.commit: store.update(agg); the unit of work ends and lets go
\* of the aggregate.
Commit(u) ==
    /\ agg[u] # NoAggregate
    /\ store' = update(store, agg[u], lists)
    /\ agg' = [agg EXCEPT ![u] = NoAggregate]
    /\ lists' = Collect(lists, agg')
    /\ ghost' = [ghost EXCEPT ![u] = NoGhost]
    /\ outcome' = [NoOutcome EXCEPT !.op = "update", !.who = u]
    /\ UNCHANGED registry

\* UnitOfWork.rollback: the unit of work ends without storing anything.
Rollback(u) ==
    /\ agg[u] # NoAggregate
    /\ agg' = [agg EXCEPT ![u] = NoAggregate]
    /\ lists' = Collect(lists, agg')
    /\ ghost' = [ghost EXCEPT ![u] = NoGhost]
    /\ outcome' = [NoOutcome EXCEPT !.op = "rollback", !.who = u]
    /\ UNCHANGED <<registry, store>>

\* registry.register(event_type), also as the decorator @registry.register.
Register(event_type) ==
    LET r == register(registry, event_type)
    IN  /\ registry' = r.self
        /\ outcome' = [NoOutcome EXCEPT !.op = "register", !.exc = r.exc,
                                        !.ret = r.ret, !.diag = r.diag]
        /\ UNCHANGED <<store, agg, lists, ghost>>

\* registry[name]
Lookup(name) ==
    LET r == lookup(registry, name)
    IN  /\ registry' = r.self
        /\ outcome' = [NoOutcome EXCEPT !.op = "lookup", !.who = name,
                                        !.exc = r.exc, !.ret = r.ret,
                                        !.diag = r.diag]
        /\ UNCHANGED <<store, agg, lists, ghost>>

(***************************************************************************)
(* Specifications                                                          *)
(***************************************************************************)

\* The aggregate side: any history may already be stored; the registry is
\* as the imports left it.
InitWith(histories) ==
    /\ registry = ImportedRegistry
    /\ store \in histories
    /\ agg = [u \in UoWs |-> NoAggregate]
    /\ lists = [l \in {} |-> << >>]
    /\ outcome = NoOutcome
    /\ ghost = [u \in UoWs |-> NoGhost]

\* One caller, every event.
Init == InitWith(HistoriesOf(Events))

Next ==
    \/ \E u \in OneUoW : Empty(u)
    \/ \E u \in OneUoW : Load(u)
    \/ \E u \in OneUoW : \E event \in Events : ApplyEvent(u, event)
    \/ \E u \in OneUoW : Commit(u)
    \/ \E u \in OneUoW : Rollback(u)

Spec == Init /\ [][Next]_vars

\* Two callers, interleaved in any order.
InitUnits == InitWith(HistoriesOf(ConcurrentEvents))

NextUnits ==
    \/ \E u \in UoWs : Empty(u)
    \/ \E u \in UoWs : Load(u)
    \/ \E u \in UoWs : \E event \in ConcurrentEvents : ApplyEvent(u, event)
    \/ \E u \in UoWs : Commit(u)
    \/ \E u \in UoWs : Rollback(u)

SpecUnits == InitUnits /\ [][NextUnits]_vars

\* The payload side: one caller stages events on a new aggregate and reads
\* their payloads.
InitPayload == InitWith({<< >>})

NextPayload ==
    \/ \E u \in OneUoW : Empty(u)
    \/ \E u \in OneUoW : \E event \in Events : ApplyEvent(u, event)
    \/ \E u \in OneUoW : \E i \in 1 .. MaxLen : AsJson(u, i)

SpecPayload == InitPayload /\ [][NextPayload]_vars

\* The registry side: registrations and lookups on a registry that starts
\* empty.
InitRegistry ==
    /\ registry = EmptyRegistry
    /\ store = << >>
    /\ agg = [u \in UoWs |-> NoAggregate]
    /\ lists = [l \in {} |-> << >>]
    /\ outcome = NoOutcome
    /\ ghost = [u \in UoWs |-> NoGhost]

NextRegistry ==
    \/ \E event_type \in AllEventTypes : Register(event_type)
    \/ \E name \in TypeNames : Lookup(name)

SpecRegistry == InitRegistry /\ [][NextRegistry]_vars

(***************************************************************************)
(* Properties                                                              *)
(***************************************************************************)

\* Everything mutated into the aggregate u holds, in order: the history it
\* was replayed from, then the events of the apply_event calls that returned.
Applied(u) == ghost[u].loaded \o ghost[u].calls

\* Units of work whose aggregate went through no apply_event that raised.
Clean == {u \in Live : ~ghost[u].failed}

\* C1. Fold consistency: an aggregate built by replay(E1) followed by
\* apply_event(e) for each e of E2 has the fields replay(E1 ++ E2) returns
\* (the events list aside), and replay(E1 ++ E2) returns; when E1 is what the
\* store holds, get_aggregate after update(aggregate) returns those fields.
FoldConsistency ==
    \A u \in Clean :
        LET r == replay(Applied(u), lists)
            g == get_aggregate(update(store, agg[u], lists), lists)
        IN  /\ r.exc = NoExc
            /\ Fields(r.obj) = Fields(agg[u])
            /\ ghost[u].loaded = store =>
                   g.exc = NoExc /\ Fields(g.obj) = Fields(agg[u])

\* An aggregate replayed from a non-empty history, then mutated by
\* apply_event.
FoldConsistencyWitness ==
    \E u \in Clean : ghost[u].loaded # << >> /\ ghost[u].calls # << >>

Determinism ==
    \A u \in Live : \A v \in Live :
        ghost[u].loaded = ghost[v].loaded => ghost[u].born = ghost[v].born

\* Two callers replayed the same non-empty history and one of them has
\* mutated its aggregate since.
DeterminismWitness ==
    \E u \in Live : \E v \in Live \ {u} :
        /\ ghost[u].loaded = ghost[v].loaded
        /\ ghost[u].loaded # << >>
        /\ ghost[u].calls # << >>
        /\ ghost[u].born = ghost[v].born

\* The history just replayed holds an event whose type name is no key of
\* the registry.
ReplayedUnregistered ==
    /\ outcome.op = "replay"
    /\ \E i \in DOMAIN store : TypeName(store[i].type) \notin DOMAIN registry

FailedApplyKeepsEvents ==
    [][\A u \in UoWs : \A event \in Events :
          (/\ agg[u] # NoAggregate
           /\ mutate(event, agg[u]).exc # NoExc
           /\ ApplyEvent(u, event)) =>
              /\ outcome'.exc = mutate(event, agg[u]).exc
              /\ agg'[u].events = agg[u].events
              /\ lists'[agg'[u].events] = lists[agg[u].events]]_vars

\* An apply_event call has raised on an aggregate that holds staged events.
FailedApplyKeepsEventsWitness ==
    /\ outcome.op = "apply_event"
    /\ outcome.exc = "DomainInvariantViolation"
    /\ lists[agg[outcome.who].events] # << >>

\* C6 as claimed. When an event's apply raises inside apply_event, having
\* changed nothing itself, every field of the aggregate, updated_at
\* included, has the value it had before the call.
FailedApplyLeavesAggregate ==
    [][\A u \in UoWs : \A event \in Events :
          (/\ ApplyEvent(u, event)
           /\ apply(event, agg[u]).exc # NoExc
           /\ apply(event, agg[u]).obj = agg[u]) =>
              agg'[u] = agg[u] /\ lists' = lists]_vars

\* The last event applied to a history whose apply assigns created_at
\* (0 when there is none).
LastCreation(h) ==
    LET c == {i \in DOMAIN h : h[i].type = "Opened"}
    IN  IF c = {} THEN 0 ELSE CHOOSE i \in c : \A j \in c : j <= i

RegisterRecords ==
    [][\A T \in AllEventTypes :
          Register(T) =>
              /\ outcome'.ret = T
              /\ outcome'.exc = NoExc
              /\ lookup(registry', TypeName(T)).ret = T
              /\ DOMAIN registry' = DOMAIN registry \cup {TypeName(T)}
              /\ \A n \in DOMAIN registry \ {TypeName(T)} :
                     registry'[n] = registry[n]]_vars

\* A type was registered under a name the registry already held for
\* another type, next to an entry of another name.
RegisterRecordsWitness ==
    /\ outcome.op = "register"
    /\ outcome.ret = "Opened2"
    /\ registry["Opened"] = "Opened2"
    /\ Cardinality(DOMAIN registry) >= 2

\* C9. The lookup of a type name that was never registered fails (KeyError,
\* the UnknownEventType condition) and leaves the registry unchanged.
UnknownNameLookupFails ==
    [][\A name \in TypeNames :
          (Lookup(name) /\ name \notin DOMAIN registry) =>
              /\ outcome'.exc = "KeyError"
              /\ outcome'.ret = None
              /\ registry' = registry]_vars

\* A lookup has failed in a registry that holds other names.
UnknownNameLookupFailsWitness ==
    /\ outcome.op = "lookup"
    /\ outcome.exc = "KeyError"
    /\ outcome.who \notin DOMAIN registry
    /\ registry # EmptyRegistry

\* C10 as claimed. Registering a type under a name the registry holds for
\* another type is rejected (the first registration stays and the call
\* raises) or overwrites with a diagnostic; it never replaces silently.
DuplicateNameNotSilent ==
    [][\A T \in AllEventTypes :
          (/\ Register(T)
           /\ TypeName(T) \in DOMAIN registry
           /\ registry[TypeName(T)] # T) =>
              \/ registry' = registry /\ outcome'.exc # NoExc
              \/ outcome'.diag # {}]_vars

\* The apply_event call that has just returned on u's aggregate was for
\* this event.
JustApplied(u, event) ==
    /\ outcome.op = "apply_event"
    /\ outcome.who = u
    /\ outcome.exc = NoExc
    /\ ghost[u].calls # << >>
    /\ ghost[u].calls[Len(ghost[u].calls)] = event

Envelope == {"event_id", "aggregate_id", "timestamp", "by"}

\* A field's value on the event, with its declared type.
FieldValue(event, f) == [type |-> FieldType[f], v |-> event[f]]

\* Two typed values are the same value.
SameValue(a, b) == a.type = b.type /\ a.v = b.v

\* The events the unit of work u has staged.
Staged(u) ==
    IF agg[u] = NoAggregate THEN {}
    ELSE {lists[agg[u].events][i] : i \in DOMAIN lists[agg[u].events]}

\* C12 as claimed. as_json returns exactly the declared payload fields
\* with their values: no envelope field is a key, every other declared
\* field is, and each key maps to the field's value.
AsJsonIsPayload ==
    outcome.op = "as_json" =>
        \E event \in Staged(outcome.who) :
            /\ DOMAIN outcome.ret = ModelFields(event) \ Envelope
            /\ \A f \in DOMAIN outcome.ret :
                   SameValue(outcome.ret[f], FieldValue(event, f))

\* C12 as amended. The keys of as_json are exactly the declared fields
\* other than the four envelope fields; each maps to the field's value as
\* JSON carries it: an int as that int, a datetime as its ISO string.
AsJsonIsJsonPayload ==
    outcome.op = "as_json" =>
        \E event \in Staged(outcome.who) :
            /\ DOMAIN outcome.ret = ModelFields(event) \ Envelope
            /\ \A f \in DOMAIN outcome.ret :
                   IF FieldType[f] = "datetime"
                   THEN SameValue(outcome.ret[f],
                                  [type |-> "str", v |-> Iso(event[f])])
                   ELSE SameValue(outcome.ret[f], FieldValue(event, f))

\* as_json has returned the payload of a staged event: amount as the int,
\* value_date as a string.
AsJsonIsJsonPayloadWitness ==
    /\ outcome.op = "as_json"
    /\ DOMAIN outcome.ret = {"amount", "value_date"}
    /\ outcome.ret["amount"] = [type |-> "int", v |-> 1]
    /\ outcome.ret["value_date"].type = "str"

\* C13. mutate assigns the event's timestamp to updated_at before apply
\* runs: after apply_event the aggregate is what apply left of the
\* aggregate already stamped, so that when apply raises updated_at is the
\* event's timestamp all the same.
UpdatedAtSetBeforeApply ==
    [][\A u \in UoWs : \A event \in Events :
          (outcome'.op = "apply_event" /\ outcome'.who = u
           /\ ApplyEvent(u, event)) =>
              LET stamped == [agg[u] EXCEPT !.updated_at = event.timestamp]
              IN  /\ agg'[u] = apply(event, stamped).obj
                  /\ apply(event, stamped).exc # NoExc =>
                         agg'[u].updated_at = event.timestamp]_vars

\* The first apply_event on an empty aggregate has raised, and updated_at
\* is no longer datetime.min.
UpdatedAtSetBeforeApplyWitness ==
    \E u \in Live :
        /\ outcome.op = "apply_event" /\ outcome.who = u
        /\ outcome.exc = "DomainInvariantViolation"
        /\ Applied(u) = << >>
        /\ agg[u].updated_at.t = 1

\* The fields a history gives when each event, first to last, is stamped
\* on updated_at and applied once to what the events before it gave.
RECURSIVE InGivenOrder(_)
InGivenOrder(h) ==
    IF h = << >>
    THEN [id |-> "", created_at |-> DatetimeMin, updated_at |-> DatetimeMin,
          balance |-> 0]
    ELSE LET last == h[Len(h)]
             before == InGivenOrder(SubSeq(h, 1, Len(h) - 1))
         IN  apply(last, [before EXCEPT !.updated_at = last.timestamp]).obj

\* C14. replay applies every event of the history once, in the order
\* given, never reordered by timestamp: the aggregate returned for a
\* non-empty history has updated_at equal to the timestamp of the last
\* event given, whatever the timestamps of the events before it.
ReplayInGivenOrder ==
    (outcome.op = "replay" /\ outcome.exc = NoExc /\ store # << >>) =>
        /\ agg[outcome.who].updated_at = store[Len(store)].timestamp
        /\ Fields(agg[outcome.who]) = InGivenOrder(store)

\* A history whose first event carries a later timestamp than its last has
\* been replayed: updated_at went from 1 down to 0.
ReplayInGivenOrderWitness ==
    /\ outcome.op = "replay" /\ outcome.exc = NoExc
    /\ Len(store) = 2
    /\ store[1].timestamp.t = 1 /\ store[2].timestamp.t = 0
    /\ agg[outcome.who].updated_at.t = 0
    /\ agg[outcome.who].balance = 2

\* The apply of the k-th event of h raises, on the aggregate the events
\* before it gave.
RaisesAt(h, k) ==
    LET before == InGivenOrder(SubSeq(h, 1, k - 1))
    IN  apply(h[k], [before EXCEPT !.updated_at = h[k].timestamp]).exc
            # NoExc

\* The first event of h whose apply raises (0 when none does).
FirstRaising(h) ==
    LET R == {k \in DOMAIN h : RaisesAt(h, k)}
    IN  IF R = {} THEN 0 ELSE CHOOSE k \in R : \A j \in R : k <= j

\* C15. When the apply of the k-th event raises during replay, the error
\* reaches the caller, the events after the k-th are not applied (k - 1
\* events went through and the loop stopped at the k-th), and nothing is
\* returned: the caller holds the aggregate it held before, or none.
ReplayFailurePropagates ==
    [][\A u \in UoWs :
          (outcome'.op = "replay" /\ Load(u) /\ FirstRaising(store) # 0) =>
              LET k == FirstRaising(store)
                  r == replay(store, lists)
                  before == InGivenOrder(SubSeq(store, 1, k - 1))
              IN  /\ outcome'.exc = apply(store[k], before).exc
                  /\ outcome'.exc # NoExc
                  /\ r.n = k - 1
                  /\ Fields(r.obj) =
                         [before EXCEPT !.updated_at = store[k].timestamp]
                  /\ agg' = agg
                  /\ ghost' = ghost]_vars

\* A replay has raised at the first of two events: the caller was given
\* no aggregate.
ReplayFailurePropagatesWitness ==
    /\ outcome.op = "replay"
    /\ outcome.exc = "DomainInvariantViolation"
    /\ Len(store) = 2
    /\ FirstRaising(store) = 1
    /\ agg[outcome.who] = NoAggregate

\* C16 as claimed. Every event in the events list of an aggregate reached
\* through apply_event has a non-empty aggregate_id, equal to the
\* aggregate's id.
AttachedEventsCarryAggregateId ==
    \A u \in Live :
        \A i \in DOMAIN lists[agg[u].events] :
            /\ lists[agg[u].events][i].aggregate_id # ""
            /\ lists[agg[u].events][i].aggregate_id = agg[u].id

\* The unit of work v commits after the store has moved on from the
\* history v's aggregate was replayed from: another unit of work has
\* committed in between.
StaleCommit(v) ==
    /\ outcome'.op = "update"
    /\ Commit(v)
    /\ ghost[v].loaded # store

\* C17. Write-write races are not resolved.  With get_aggregate as
\* replay(for_aggregate(id)) and update appending the staged events, a
\* commit by a unit of work whose loaded history is no longer what the
\* store holds raises nothing and appends its delta after the other's; the
\* state it held is the fold of what it loaded and applied, while the
\* replay of the stored history is the fold of everything stored.
WriteWriteRaceUnresolved ==
    [][\A v \in UoWs :
          StaleCommit(v) =>
              /\ outcome'.exc = NoExc
              /\ store' = store \o ghost[v].calls
              /\ (v \in Clean) =>
                     Fields(agg[v]) = InGivenOrder(Applied(v))
              /\ LET g == get_aggregate(store', lists')
                 IN  g.exc = NoExc => Fields(g.obj) = InGivenOrder(store')
         ]_vars

\* Two units of work loaded the same history; one has just committed its
\* delta and the other, holding a delta of its own, is about to: the replay
\* of what the store will hold differs from the state it has in memory.
WriteWriteRaceUnresolvedWitness ==
    \E v \in Clean :
        /\ outcome.op = "update" /\ outcome.who # v
        /\ ghost[v].calls # << >>
        /\ Len(store) > Len(ghost[v].loaded)
        /\ SubSeq(store, 1, Len(ghost[v].loaded)) = ghost[v].loaded
        /\ LET g == get_aggregate(update(store, agg[v], lists), lists)
           IN  g.exc = NoExc /\ Fields(g.obj) # Fields(agg[v])

\* C18. Aggregates do not share their events list: apply_event on the
\* aggregate of one caller leaves the events list and every field of the
\* aggregate another caller got from empty() or replay as they were.
EventsListNotShared ==
    [][\A u \in UoWs : \A v \in Live \ {u} : \A event \in Events :
          (outcome'.op = "apply_event" /\ ApplyEvent(u, event)) =>
              /\ agg[u].events # agg[v].events
              /\ agg'[v] = agg[v]
              /\ State(agg'[v], lists') = State(agg[v], lists)]_vars

\* Two aggregates are held, one replayed from a stored history; an
\* apply_event on the other has returned and only its list holds the event.
EventsListNotSharedWitness ==
    \E u \in Live : \E v \in Live \ {u} :
        /\ outcome.op = "apply_event" /\ outcome.who = u
        /\ outcome.exc = NoExc
        /\ ghost[v].loaded # << >>
        /\ lists[agg[u].events] # << >>
        /\ lists[agg[v].events] = << >>
        /\ State(agg[v], lists) = ghost[v].born

\* The apply of the event writes no field of the aggregate and raises
\* nothing.
WritesNothing(event, aggregate) ==
    apply(event, aggregate) = [obj |-> aggregate, exc |-> NoExc]

\* C19. Outside what the concrete apply does, apply_event changes only
\* updated_at and the events list: for an event whose apply writes no
\* field, id, created_at, every other field and the truthiness of the
\* aggregate are as before, updated_at is the event's timestamp, and the
\* events list is the one before with the event, as it was passed, at its
\* end.
ApplyEventFrame ==
    [][\A u \in UoWs : \A event \in Events :
          (/\ outcome'.op = "apply_event" /\ outcome'.who = u
           /\ WritesNothing(event, agg[u])
           /\ ApplyEvent(u, event)) =>
              /\ agg'[u] = [agg[u] EXCEPT !.updated_at = event.timestamp]
              /\ agg'[u].id = agg[u].id
              /\ agg'[u].created_at = agg[u].created_at
              /\ bool(agg'[u]) = bool(agg[u])
              /\ lists'[agg'[u].events] =
                     Append(lists[agg[u].events], event)
              /\ \A l \in DOMAIN lists \ {agg[u].events} :
                     lists'[l] = lists[l]]_vars

\* An event whose apply writes nothing was applied to an aggregate that is
\* still falsy: updated_at has moved off datetime.min, created_at has not.
ApplyEventFrameWitness ==
    \E u \in Clean :
        /\ outcome.op = "apply_event" /\ outcome.who = u
        /\ outcome.exc = NoExc
        /\ ghost[u].calls # << >>
        /\ ghost[u].calls[Len(ghost[u].calls)].type = "Noted"
        /\ lists[agg[u].events] = ghost[u].calls
        /\ agg[u].updated_at.obj = "other"
        /\ agg[u].created_at = DatetimeMin
        /\ ~bool(agg[u])

====
